---- MODULE Spec2Model ----
(***************************************************************************)
(* Customer-management MCP server: the protocol gateway (app.py) and the   *)
(* record store (database.py).                                             *)
(*                                                                         *)
(* Python / JSON values are tagged records [k |-> kind, v |-> payload].    *)
(* A Python str / SQL TEXT value is a sequence of one-character strings,   *)
(* so that str.strip, ORDER BY name and SQLite's column affinities are     *)
(* computed on the characters.  Dictionary keys and the fixed literals of  *)
(* the responses (message formats, schema words) are TLA+ strings.         *)
(***************************************************************************)
EXTENDS Integers, Sequences, FiniteSets, TLC

(***************************************************************************)
(* Bounds of the model.                                                    *)
(***************************************************************************)
MaxAdds == 1        \* rows inserted on top of the sample data
MaxClock == 1       \* CURRENT_TIMESTAMP ranges over 0..MaxClock

Threads == {1, 2}   \* request threads of the threaded HTTP server

(***************************************************************************)
(* Python values.                                                          *)
(***************************************************************************)
PyNone == [k |-> "null", v |-> 0]
PyInt(n) == [k |-> "int", v |-> n]
PyStr(s) == [k |-> "str", v |-> s]
PyList(s) == [k |-> "list", v |-> s]
PyDict(f) == [k |-> "dict", v |-> f]

\* The body of a request that is not JSON at all.
Malformed == [k |-> "malformed", v |-> 0]

EmptyDict == PyDict(<<>>)

IsDict(x) == x.k = "dict"
IsStr(x) == x.k = "str"

\* Python truthiness: `if not message`, `if status`, `not name`.
Truthy(x) ==
  CASE x.k = "null" -> FALSE
    [] x.k = "int" -> x.v # 0
    [] x.k = "str" -> x.v # <<>>
    [] x.k = "list" -> x.v # <<>>
    [] x.k = "dict" -> DOMAIN x.v # {}
    [] OTHER -> FALSE

\* dict.get(key, default)
Get(d, key, default) == IF key \in DOMAIN d.v THEN d.v[key] ELSE default

(***************************************************************************)
(* Text.                                                                   *)
(***************************************************************************)
Whitespace == {" "}

Digits == <<"0", "1", "2", "3", "4", "5", "6", "7", "8", "9">>

Alphabet ==
  <<" ","0","1","2","3","4","5","6","7","8","9",
    "A","B","C","D","E","F","G","H","I","J","K","L","M","N","O","P","Q","R","S","T","U","V","W","X","Y","Z",
    "a","b","c","d","e","f","g","h","i","j","k","l","m","n","o","p","q","r","s","t","u","v","w","x","y","z">>

\* Code point order of the characters (SQLite's BINARY collation).
Ord == [c \in {Alphabet[i] : i \in DOMAIN Alphabet} |->
          CHOOSE i \in DOMAIN Alphabet : Alphabet[i] = c]

RECURSIVE LStrip(_)
LStrip(s) ==
  IF s # <<>> /\ Head(s) \in Whitespace THEN LStrip(Tail(s)) ELSE s

RECURSIVE RStrip(_)
RStrip(s) ==
  IF s # <<>> /\ s[Len(s)] \in Whitespace
    THEN RStrip(SubSeq(s, 1, Len(s) - 1))
    ELSE s

\* str.strip()
Strip(s) == RStrip(LStrip(s))

\* s < t in code point order
RECURSIVE TextLess(_, _)
TextLess(s, t) ==
  IF t = <<>> THEN FALSE
  ELSE IF s = <<>> THEN TRUE
  ELSE IF Head(s) # Head(t) THEN Ord[Head(s)] < Ord[Head(t)]
  ELSE TextLess(Tail(s), Tail(t))

DigitValue(c) == (CHOOSE i \in DOMAIN Digits : Digits[i] = c) - 1

IsDigits(s) == s # <<>> /\ \A i \in DOMAIN s : \E j \in DOMAIN Digits : Digits[j] = s[i]

RECURSIVE DigitsValue(_)
DigitsValue(s) ==
  IF s = <<>> THEN 0
  ELSE 10 * DigitsValue(SubSeq(s, 1, Len(s) - 1)) + DigitValue(s[Len(s)])

RECURSIVE NatDigits(_)
NatDigits(n) ==
  IF n < 10 THEN <<Digits[n + 1]>>
  ELSE NatDigits(n \div 10) \o <<Digits[(n % 10) + 1]>>

(***************************************************************************)
(* String literals of the protocol and of the store.                       *)
(***************************************************************************)
S_initialize == <<"i","n","i","t","i","a","l","i","z","e">>
S_tools_list == <<"t","o","o","l","s","/","l","i","s","t">>
S_tools_call == <<"t","o","o","l","s","/","c","a","l","l">>
S_get_customer == <<"g","e","t","_","c","u","s","t","o","m","e","r">>
S_list_customers == <<"l","i","s","t","_","c","u","s","t","o","m","e","r","s">>
S_add_customer == <<"a","d","d","_","c","u","s","t","o","m","e","r">>
S_update_customer == <<"u","p","d","a","t","e","_","c","u","s","t","o","m","e","r">>
S_disable_customer == <<"d","i","s","a","b","l","e","_","c","u","s","t","o","m","e","r">>
S_activate_customer == <<"a","c","t","i","v","a","t","e","_","c","u","s","t","o","m","e","r">>
S_delete_customer == <<"d","e","l","e","t","e","_","c","u","s","t","o","m","e","r">>
S_active == <<"a","c","t","i","v","e">>
S_disabled == <<"d","i","s","a","b","l","e","d">>
S_bogus == <<"b","o","g","u","s">>
S_ping == <<"p","i","n","g">>

(***************************************************************************)
(* SQLite values, parameter binding and column affinity.                   *)
(***************************************************************************)
SqlNull == [k |-> "NULL", v |-> 0]
SqlInt(n) == [k |-> "INTEGER", v |-> n]
SqlText(s) == [k |-> "TEXT", v |-> s]
\* The text CURRENT_TIMESTAMP yields, as the second of the clock it renders.
SqlTime(n) == [k |-> "TIMESTAMP", v |-> n]

\* sqlite3 binds None, int and str; any other type raises InterfaceError.
Bindable(x) == x.k \in {"null", "int", "str"}

ToSql(x) ==
  CASE x.k = "null" -> SqlNull
    [] x.k = "int" -> SqlInt(x.v)
    [] x.k = "str" -> SqlText(x.v)

\* sqlite3.Row -> Python: NULL is None, INTEGER an int, TEXT a str.
FromSql(x) ==
  CASE x.k = "NULL" -> PyNone
    [] x.k = "INTEGER" -> PyInt(x.v)
    [] x.k = "TEXT" -> PyStr(x.v)
    [] x.k = "TIMESTAMP" -> [k |-> "timestamp", v |-> x.v]

\* INTEGER affinity: a text that is a well-formed integer becomes that integer.
IntegerAffinity(x) ==
  IF x.k = "TEXT" /\ IsDigits(Strip(x.v))
    THEN SqlInt(DigitsValue(Strip(x.v)))
    ELSE x

\* TEXT affinity: a number is stored as its text.
TextAffinity(x) ==
  IF x.k = "INTEGER" /\ x.v >= 0 THEN SqlText(NatDigits(x.v)) ELSE x

(***************************************************************************)
(* The customers table.                                                    *)
(***************************************************************************)
sample_customers ==
  <<
    <<<<"A","l","i","c","e"," ","J","o","h","n","s","o","n">>,
      <<"a","l","i","c","e",".","j","o","h","n","s","o","n","@","e","m","a","i","l",".","c","o","m">>,
      <<"+","1","-","5","5","5","-","0","1","0","1">>,
      S_active>>,
    <<<<"B","o","b"," ","S","m","i","t","h">>,
      <<"b","o","b",".","s","m","i","t","h","@","e","m","a","i","l",".","c","o","m">>,
      <<"+","1","-","5","5","5","-","0","1","0","2">>,
      S_active>>,
    <<<<"C","a","r","o","l"," ","W","h","i","t","e">>,
      <<"c","a","r","o","l",".","w","h","i","t","e","@","e","m","a","i","l",".","c","o","m">>,
      <<"+","1","-","5","5","5","-","0","1","0","3">>,
      S_active>>,
    <<<<"D","a","v","i","d"," ","B","r","o","w","n">>,
      <<"d","a","v","i","d",".","b","r","o","w","n","@","e","m","a","i","l",".","c","o","m">>,
      <<"+","1","-","5","5","5","-","0","1","0","4">>,
      S_disabled>>,
    <<<<"E","v","e"," ","D","a","v","i","s">>,
      <<"e","v","e",".","d","a","v","i","s","@","e","m","a","i","l",".","c","o","m">>,
      <<"+","1","-","5","5","5","-","0","1","0","5">>,
      S_active>>,
    <<<<"F","r","a","n","k"," ","M","i","l","l","e","r">>,
      <<"f","r","a","n","k",".","m","i","l","l","e","r","@","e","m","a","i","l",".","c","o","m">>,
      <<"+","1","-","5","5","5","-","0","1","0","6">>,
      S_active>>,
    <<<<"G","r","a","c","e"," ","W","i","l","s","o","n">>,
      <<"g","r","a","c","e",".","w","i","l","s","o","n","@","e","m","a","i","l",".","c","o","m">>,
      <<"+","1","-","5","5","5","-","0","1","0","7">>,
      S_active>>,
    <<<<"H","e","n","r","y"," ","M","o","o","r","e">>,
      <<"h","e","n","r","y",".","m","o","o","r","e","@","e","m","a","i","l",".","c","o","m">>,
      <<"+","1","-","5","5","5","-","0","1","0","8">>,
      S_disabled>>,
    <<<<"I","r","i","s"," ","T","a","y","l","o","r">>,
      <<"i","r","i","s",".","t","a","y","l","o","r","@","e","m","a","i","l",".","c","o","m">>,
      <<"+","1","-","5","5","5","-","0","1","0","9">>,
      S_active>>,
    <<<<"J","a","c","k"," ","A","n","d","e","r","s","o","n">>,
      <<"j","a","c","k",".","a","n","d","e","r","s","o","n","@","e","m","a","i","l",".","c","o","m">>,
      <<"+","1","-","5","5","5","-","0","1","1","0">>,
      S_active>>
  >>

NumSamples == Len(sample_customers)

\* init_database: the table of a fresh database, all rows stamped at time 0.
init_database ==
  [i \in 1..NumSamples |->
     [id |-> SqlInt(i),
      name |-> SqlText(sample_customers[i][1]),
      email |-> SqlText(sample_customers[i][2]),
      phone |-> SqlText(sample_customers[i][3]),
      status |-> SqlText(sample_customers[i][4]),
      created_at |-> SqlTime(0),
      updated_at |-> SqlTime(0)]]

row_to_dict(row) == [key \in DOMAIN row |-> FromSql(row[key])]

\* The rowids that satisfy  WHERE id = ?  for the bound parameter.
WhereId(tbl, param) ==
  {i \in DOMAIN tbl : tbl[i].id = IntegerAffinity(ToSql(param))}

\* SELECT * FROM customers WHERE id = ?  has a row
HasRow(tbl, param) == WhereId(tbl, param) # {}

\* cursor.fetchone() of that SELECT, when it has a row
FetchOne(tbl, param) == tbl[CHOOSE i \in WhereId(tbl, param) : TRUE]

\* The rows no other row of the set precedes in ORDER BY name.
FirstByName(rows) ==
  {r \in rows : \A q \in rows : ~TextLess(q.name.v, r.name.v)}

\* Every order ORDER BY name may return the rows in (rows of equal name come
\* in an order SQL leaves open).
RECURSIVE OrderByName(_)
OrderByName(rows) ==
  IF rows = {} THEN {<<>>}
  ELSE UNION {{<<r>> \o rest : rest \in OrderByName(rows \ {r})} :
                r \in FirstByName(rows)}

(***************************************************************************)
(* Record store: the dictionaries the operations return.                   *)
(***************************************************************************)
\* An f-string: its fixed text and the value formatted into it.
Fmt(text, arg) == [fmt |-> text, arg |-> arg]

\* A message without a formatted value.
Text(text) == Fmt(text, PyNone)

\* An exception, by the name of its class.
Exc(class) == [k |-> "exception", v |-> class]

NotFound(customer_id) ==
  [success |-> FALSE,
   error |-> Fmt("Customer with ID {customer_id} not found", customer_id)]

\* except Exception as e: ... 'Database error: {str(e)}'
DatabaseError(e) ==
  [success |-> FALSE, error |-> Fmt("Database error: {str(e)}", e)]

NameRequired == [success |-> FALSE, error |-> Text("Customer name is required")]

NoFields == [success |-> FALSE, error |-> Text("No fields to update")]

BadStatus ==
  [success |-> FALSE, error |-> Text("Status must be \"active\" or \"disabled\"")]

\* get_customer: one SELECT.  fault: the connection or the statement raises.
get_customer(tbl, customer_id, fault) ==
  IF fault THEN DatabaseError(Exc("OperationalError"))
  ELSE IF ~Bindable(customer_id) THEN DatabaseError(Exc("InterfaceError"))
  ELSE IF HasRow(tbl, customer_id)
    THEN [success |-> TRUE, customer |-> row_to_dict(FetchOne(tbl, customer_id))]
    ELSE NotFound(customer_id)

\* A list_customers that validates the status and then selects every row.
list_customers_unfiltered(tbl, status, fault) ==
  IF fault THEN {DatabaseError(Exc("OperationalError"))}
  ELSE IF Truthy(status) /\ status \notin {PyStr(S_active), PyStr(S_disabled)}
    THEN {BadStatus}
  ELSE
    {[success |-> TRUE,
      count |-> Len(order),
      customers |-> [i \in DOMAIN order |-> row_to_dict(order[i])]] :
       order \in OrderByName({tbl[i] : i \in DOMAIN tbl})}

\* A list_customers with ORDER BY name DESC.
list_customers_descending(tbl, status, fault) ==
  IF fault THEN {DatabaseError(Exc("OperationalError"))}
  ELSE IF Truthy(status) /\ status \notin {PyStr(S_active), PyStr(S_disabled)}
    THEN {BadStatus}
  ELSE
    LET rows == IF Truthy(status)
                  THEN {tbl[i] : i \in {j \in DOMAIN tbl : tbl[j].status = ToSql(status)}}
                  ELSE {tbl[i] : i \in DOMAIN tbl}
    IN {[success |-> TRUE,
         count |-> Len(order),
         customers |-> [i \in DOMAIN order |-> row_to_dict(order[Len(order) + 1 - i])]] :
          order \in OrderByName(rows)}

\* list_customers: the dictionaries it may return (one per order of the rows).
list_customers(tbl, status, fault) ==
  IF fault THEN {DatabaseError(Exc("OperationalError"))}
  ELSE IF Truthy(status) /\ status \notin {PyStr(S_active), PyStr(S_disabled)}
    THEN {BadStatus}
  ELSE
    LET rows == IF Truthy(status)
                  THEN {tbl[i] : i \in {j \in DOMAIN tbl : tbl[j].status = ToSql(status)}}
                  ELSE {tbl[i] : i \in DOMAIN tbl}
    IN {[success |-> TRUE,
         count |-> Len(order),
         customers |-> [i \in DOMAIN order |-> row_to_dict(order[i])]] :
          order \in OrderByName(rows)}

\* The operation goes on to its INSERT or UPDATE statement.
Proceed == [proceed |-> TRUE]

Returned(check) == "success" \in DOMAIN check

\* A validation that tests `not name` only, without name.strip().
add_customer_check_unstripped(name, email, phone, fault) ==
  IF ~Truthy(name) THEN NameRequired
  ELSE IF ~IsStr(name) THEN DatabaseError(Exc("AttributeError"))
  ELSE IF fault THEN DatabaseError(Exc("OperationalError"))
  ELSE IF ~Bindable(email) \/ ~Bindable(phone) THEN DatabaseError(Exc("InterfaceError"))
  ELSE Proceed

\* add_customer up to its INSERT: Proceed when the statement is executed,
\* otherwise the dictionary returned without touching the table.
add_customer_check(name, email, phone, fault) ==
  IF ~Truthy(name) THEN NameRequired
  ELSE IF ~IsStr(name) THEN DatabaseError(Exc("AttributeError"))
  ELSE IF Strip(name.v) = <<>> THEN NameRequired
  ELSE IF fault THEN DatabaseError(Exc("OperationalError"))
  ELSE IF ~Bindable(email) \/ ~Bindable(phone) THEN DatabaseError(Exc("InterfaceError"))
  ELSE Proceed

\* The largest rowid of the table.
MaxId(tbl) == CHOOSE i \in DOMAIN tbl : \A j \in DOMAIN tbl : j <= i

\* A rowid taken from the sequence as it stands, without advancing it.
NextRowidStale(tbl, seq) == IF MaxId(tbl) > seq THEN MaxId(tbl) ELSE seq

\* id INTEGER PRIMARY KEY AUTOINCREMENT: one more than the largest rowid the
\* table holds or ever held.
NextRowid(tbl, seq) == (IF MaxId(tbl) > seq THEN MaxId(tbl) ELSE seq) + 1

\* An INSERT that stores the name as supplied, without name.strip().
InsertRowUntrimmed(rowid, name, email, phone, now) ==
  [id |-> SqlInt(rowid),
   name |-> TextAffinity(ToSql(name)),
   email |-> TextAffinity(ToSql(email)),
   phone |-> TextAffinity(ToSql(phone)),
   status |-> SqlText(S_active),
   created_at |-> SqlTime(now),
   updated_at |-> SqlTime(now)]

\* INSERT INTO customers (name, email, phone, status) VALUES (?, ?, ?, 'active')
InsertRow(rowid, name, email, phone, now) ==
  [id |-> SqlInt(rowid),
   name |-> TextAffinity(ToSql(PyStr(Strip(name.v)))),
   email |-> TextAffinity(ToSql(email)),
   phone |-> TextAffinity(ToSql(phone)),
   status |-> SqlText(S_active),
   created_at |-> SqlTime(now),
   updated_at |-> SqlTime(now)]

\* An update_customer that looks for fields before it looks for the record.
update_customer_check_fields_first(tbl, customer_id, name, email, phone, fault) ==
  IF fault THEN DatabaseError(Exc("OperationalError"))
  ELSE IF name # PyNone /\ ~IsStr(name) THEN DatabaseError(Exc("AttributeError"))
  ELSE IF name = PyNone /\ email = PyNone /\ phone = PyNone THEN NoFields
  ELSE IF ~Bindable(customer_id) THEN DatabaseError(Exc("InterfaceError"))
  ELSE IF ~HasRow(tbl, customer_id) THEN NotFound(customer_id)
  ELSE Proceed

\* update_customer from its existence check to its UPDATE: Proceed when the
\* statement is to be executed, otherwise the dictionary returned.
update_customer_check(tbl, customer_id, name, email, phone, fault) ==
  IF fault THEN DatabaseError(Exc("OperationalError"))
  ELSE IF ~Bindable(customer_id) THEN DatabaseError(Exc("InterfaceError"))
  ELSE IF ~HasRow(tbl, customer_id) THEN NotFound(customer_id)
  ELSE IF name # PyNone /\ ~IsStr(name) THEN DatabaseError(Exc("AttributeError"))
  ELSE IF name = PyNone /\ email = PyNone /\ phone = PyNone THEN NoFields
  ELSE Proceed

\* An UPDATE without updated_at = CURRENT_TIMESTAMP.
UpdateRowWithoutTimestamp(row, name, email, phone, now) ==
  [row EXCEPT
     !.name = IF name # PyNone THEN TextAffinity(ToSql(PyStr(Strip(name.v)))) ELSE @,
     !.email = IF email # PyNone THEN TextAffinity(ToSql(email)) ELSE @,
     !.phone = IF phone # PyNone THEN TextAffinity(ToSql(phone)) ELSE @]

\* An UPDATE that sets the three fields whether supplied or not.
UpdateRowOverwrite(row, name, email, phone, now) ==
  [row EXCEPT
     !.name = IF name # PyNone THEN TextAffinity(ToSql(PyStr(Strip(name.v)))) ELSE @,
     !.email = TextAffinity(ToSql(email)),
     !.phone = TextAffinity(ToSql(phone)),
     !.updated_at = SqlTime(now)]

\* An UPDATE that also sets status = 'active'.
UpdateRowReactivates(row, name, email, phone, now) ==
  [row EXCEPT
     !.name = IF name # PyNone THEN TextAffinity(ToSql(PyStr(Strip(name.v)))) ELSE @,
     !.email = IF email # PyNone THEN TextAffinity(ToSql(email)) ELSE @,
     !.phone = IF phone # PyNone THEN TextAffinity(ToSql(phone)) ELSE @,
     !.status = SqlText(S_active),
     !.updated_at = SqlTime(now)]

\* UPDATE customers SET <supplied fields>, updated_at = CURRENT_TIMESTAMP
UpdateRow(row, name, email, phone, now) ==
  [row EXCEPT
     !.name = IF name # PyNone THEN TextAffinity(ToSql(PyStr(Strip(name.v)))) ELSE @,
     !.email = IF email # PyNone THEN TextAffinity(ToSql(email)) ELSE @,
     !.phone = IF phone # PyNone THEN TextAffinity(ToSql(phone)) ELSE @,
     !.updated_at = SqlTime(now)]

\* disable_customer / activate_customer up to their UPDATE
status_check(tbl, customer_id, fault) ==
  IF fault THEN DatabaseError(Exc("OperationalError"))
  ELSE IF ~Bindable(customer_id) THEN DatabaseError(Exc("InterfaceError"))
  ELSE IF ~HasRow(tbl, customer_id) THEN NotFound(customer_id)
  ELSE Proceed

\* A REPLACE of the row in place of an UPDATE: created_at is stamped anew.
StatusRowReplaced(row, status, now) ==
  [row EXCEPT !.status = SqlText(status), !.created_at = SqlTime(now),
              !.updated_at = SqlTime(now)]

\* An UPDATE that flips the status instead of setting it.
StatusRowToggle(row, status, now) ==
  [row EXCEPT !.status = IF @ = SqlText(S_active) THEN SqlText(S_disabled)
                                                  ELSE SqlText(S_active),
              !.updated_at = SqlTime(now)]

\* An UPDATE ... WHERE status = 'active': the first status written stays.
StatusRowFirstWins(row, status, now) ==
  IF row.status = SqlText(S_active)
    THEN [row EXCEPT !.status = SqlText(status), !.updated_at = SqlTime(now)]
    ELSE row

\* UPDATE customers SET status = ?, updated_at = CURRENT_TIMESTAMP
StatusRow(row, status, now) ==
  [row EXCEPT !.status = SqlText(status), !.updated_at = SqlTime(now)]

\* The message of the dictionary a mutating operation returns on success.
SuccessMessage(tool, customer_id) ==
  CASE tool = S_add_customer ->
         Fmt("Customer created with ID {customer_id}", customer_id)
    [] tool = S_update_customer ->
         Fmt("Customer {customer_id} updated successfully", customer_id)
    [] tool = S_disable_customer ->
         Fmt("Customer {customer_id} has been disabled", customer_id)
    [] tool = S_activate_customer ->
         Fmt("Customer {customer_id} has been activated", customer_id)

\* A mutating operation that returns its message without the record.
read_back_message_only(tbl, tool, customer_id, fault) ==
  IF fault THEN DatabaseError(Exc("OperationalError"))
  ELSE [success |-> TRUE, message |-> SuccessMessage(tool, customer_id)]

\* The closing SELECT of a mutating operation and the dictionary returned.
read_back(tbl, tool, customer_id, fault) ==
  IF fault THEN DatabaseError(Exc("OperationalError"))
  ELSE [success |-> TRUE,
        message |-> SuccessMessage(tool, customer_id),
        customer |-> row_to_dict(FetchOne(tbl, customer_id))]

(***************************************************************************)
(* Operation registry.                                                     *)
(***************************************************************************)
IntegerParam(description) == [type |-> "integer", description |-> description]
StringParam(description) == [type |-> "string", description |-> description]

MCP_TOOLS ==
  <<[name |-> S_get_customer,
     description |-> "Retrieve a specific customer by their ID. Returns customer details including name, email, phone, and status.",
     inputSchema |->
       [type |-> "object",
        properties |->
          [customer_id |-> IntegerParam("The unique ID of the customer to retrieve")],
        required |-> <<"customer_id">>]],
    [name |-> S_list_customers,
     description |-> "List all customers in the database. Can optionally filter by status (active or disabled).",
     inputSchema |->
       [type |-> "object",
        properties |->
          [status |-> [type |-> "string",
                       enum |-> <<S_active, S_disabled>>,
                       description |-> "Optional filter by customer status"]]]],
    [name |-> S_add_customer,
     description |-> "Add a new customer to the database. Name is required, email and phone are optional.",
     inputSchema |->
       [type |-> "object",
        properties |->
          [name |-> StringParam("Customer's full name (required)"),
           email |-> StringParam("Customer's email address (optional)"),
           phone |-> StringParam("Customer's phone number (optional)")],
        required |-> <<"name">>]],
    [name |-> S_update_customer,
     description |-> "Update an existing customer's information. Provide the customer ID and the fields to update.",
     inputSchema |->
       [type |-> "object",
        properties |->
          [customer_id |-> IntegerParam("The unique ID of the customer to update"),
           name |-> StringParam("New name (optional)"),
           email |-> StringParam("New email (optional)"),
           phone |-> StringParam("New phone (optional)")],
        required |-> <<"customer_id">>]],
    [name |-> S_disable_customer,
     description |-> "Disable a customer account by setting their status to 'disabled'.",
     inputSchema |->
       [type |-> "object",
        properties |->
          [customer_id |-> IntegerParam("The unique ID of the customer to disable")],
        required |-> <<"customer_id">>]],
    [name |-> S_activate_customer,
     description |-> "Activate a customer account by setting their status to 'active'.",
     inputSchema |->
       [type |-> "object",
        properties |->
          [customer_id |-> IntegerParam("The unique ID of the customer to activate")],
        required |-> <<"customer_id">>]]>>

\* The keys of the dictionary handle_tools_call resolves tool names in.
tool_functions ==
  {S_get_customer, S_list_customers, S_add_customer,
   S_update_customer, S_disable_customer, S_activate_customer}

\* An add_customer(name, email=None) without the phone parameter.
SignatureWithoutPhone(tool) ==
  CASE tool = S_get_customer -> [required |-> {"customer_id"}, optional |-> {}]
    [] tool = S_list_customers -> [required |-> {}, optional |-> {"status"}]
    [] tool = S_add_customer -> [required |-> {"name"}, optional |-> {"email"}]
    [] tool = S_update_customer ->
         [required |-> {"customer_id"}, optional |-> {"name", "email", "phone"}]
    [] tool = S_disable_customer -> [required |-> {"customer_id"}, optional |-> {}]
    [] tool = S_activate_customer -> [required |-> {"customer_id"}, optional |-> {}]

\* The parameters of the DatabaseManager method behind each tool: those
\* without a default, and those defaulting to None.
Signature(tool) ==
  CASE tool = S_get_customer -> [required |-> {"customer_id"}, optional |-> {}]
    [] tool = S_list_customers -> [required |-> {}, optional |-> {"status"}]
    [] tool = S_add_customer ->
         [required |-> {"name"}, optional |-> {"email", "phone"}]
    [] tool = S_update_customer ->
         [required |-> {"customer_id"}, optional |-> {"name", "email", "phone"}]
    [] tool = S_disable_customer -> [required |-> {"customer_id"}, optional |-> {}]
    [] tool = S_activate_customer -> [required |-> {"customer_id"}, optional |-> {}]

\* tool_functions[tool_name](**arguments) binds without a TypeError
Binds(tool, arguments) ==
  /\ IsDict(arguments)
  /\ Signature(tool).required \subseteq DOMAIN arguments.v
  /\ DOMAIN arguments.v \subseteq Signature(tool).required \cup Signature(tool).optional

\* The parameters of the call once bound.
Bound(tool, arguments) ==
  [p \in Signature(tool).required \cup Signature(tool).optional |->
     Get(arguments, p, PyNone)]

(***************************************************************************)
(* Protocol gateway.                                                       *)
(***************************************************************************)
PARSE_ERROR == -32700
METHOD_NOT_FOUND == -32601
INVALID_PARAMS == -32602
INTERNAL_ERROR == -32603

\* A result envelope that forgets the id of the request.
ResultEnvelopeWithoutId(id, result) ==
  [jsonrpc |-> "2.0", id |-> PyNone, result |-> result]

ResultEnvelope(id, result) == [jsonrpc |-> "2.0", id |-> id, result |-> result]

ErrorEnvelope(id, code, message) ==
  [jsonrpc |-> "2.0", id |-> id, error |-> [code |-> code, message |-> message]]

\* json.dumps: the text of a value.
dumps(data) == [json |-> data]

\* create_sse_message: one Server-Sent-Events frame, 'data: {json}\n\n'.
create_sse_message(data) == [frame |-> "data", data |-> dumps(data)]

\* What a handler does: it returns a value, raises, or calls the store.
Return(value) == [t |-> "return", v |-> value]
Raise(class) == [t |-> "raise", v |-> Exc(class)]
Invoke(tool, args) == [t |-> "invoke", tool |-> tool, args |-> args]

\* An initialize that insists on a request id.
handle_initialize_strict(message) ==
  IF Get(message, "id", PyNone) = PyNone
    THEN ErrorEnvelope(PyNone, INVALID_PARAMS, Text("Missing id"))
    ELSE ResultEnvelope(Get(message, "id", PyNone),
           [protocolVersion |-> "2024-11-05",
            capabilities |-> [tools |-> <<>>],
            serverInfo |-> [name |-> "customer-management-server", version |-> "1.0.0"]])

handle_initialize(message) ==
  ResultEnvelope(Get(message, "id", PyNone),
    [protocolVersion |-> "2024-11-05",
     capabilities |-> [tools |-> <<>>],
     serverInfo |-> [name |-> "customer-management-server", version |-> "1.0.0"]])

\* A tools/list that leaves the last tool of the catalog out.
handle_tools_list_short(message) ==
  ResultEnvelope(Get(message, "id", PyNone),
    [tools |-> SubSeq(MCP_TOOLS, 1, Len(MCP_TOOLS) - 1)])

handle_tools_list(message) ==
  ResultEnvelope(Get(message, "id", PyNone), [tools |-> MCP_TOOLS])

\* A list or a dict is unhashable: `tool_name not in tool_functions` raises.
Hashable(x) == x.k \notin {"list", "dict"}

\* handle_tools_call up to the call of the tool function.
handle_tools_call(message) ==
  LET params == Get(message, "params", EmptyDict) IN
  IF ~IsDict(params) THEN Raise("AttributeError")
  ELSE
    LET tool_name == Get(params, "name", PyNone)
        arguments == Get(params, "arguments", EmptyDict)
    IN IF ~Hashable(tool_name) THEN Raise("TypeError")
       ELSE IF ~IsStr(tool_name) \/ tool_name.v \notin tool_functions
         THEN Return(ErrorEnvelope(Get(message, "id", PyNone), METHOD_NOT_FOUND,
                       Fmt("Tool not found: {tool_name}", tool_name)))
       ELSE IF ~Binds(tool_name.v, arguments)
         THEN Return(ErrorEnvelope(Get(message, "id", PyNone), INVALID_PARAMS,
                       Fmt("Invalid arguments: {str(e)}", Exc("TypeError"))))
       ELSE Invoke(tool_name.v, Bound(tool_name.v, arguments))

\* handle_tools_call once the tool function has returned its dictionary.
tool_result(message, result) ==
  ResultEnvelope(Get(message, "id", PyNone),
    [content |-> <<[type |-> "text", text |-> dumps(result)]>>])

\* A dispatch whose last branch lists the tools instead of rejecting the method.
process_mcp_message_lenient(message) ==
  LET method == Get(message, "method", PyNone) IN
  IF method = PyStr(S_initialize) THEN Return(handle_initialize(message))
  ELSE IF method = PyStr(S_tools_call) THEN handle_tools_call(message)
  ELSE Return(handle_tools_list(message))

process_mcp_message(message) ==
  LET method == Get(message, "method", PyNone) IN
  IF method = PyStr(S_initialize) THEN Return(handle_initialize(message))
  ELSE IF method = PyStr(S_tools_list) THEN Return(handle_tools_list(message))
  ELSE IF method = PyStr(S_tools_call) THEN handle_tools_call(message)
  ELSE Return(ErrorEnvelope(Get(message, "id", PyNone), METHOD_NOT_FOUND,
                Fmt("Method not found: {method}", method)))

\* request.get_json() yields a message and `not message` is false
Parses(body) == body # Malformed /\ Truthy(body)

\* The request reaches a tool function.
Invokes(body) ==
  Parses(body) /\ IsDict(body) /\ process_mcp_message(body).t = "invoke"

(***************************************************************************)
(* HTTP responses.                                                         *)
(***************************************************************************)
NoResponse == [status |-> 0, mimetype |-> "", body |-> <<>>]

\* A parse error sent with the default status of jsonify.
ParseErrorResponseWithoutStatus(e) ==
  [status |-> 200, mimetype |-> "application/json",
   body |-> <<dumps(ErrorEnvelope(PyNone, PARSE_ERROR,
                      Fmt("Parse error: {str(e)}", Exc(e))))>>]

\* jsonify(envelope), 400
ParseErrorResponse(e) ==
  [status |-> 400, mimetype |-> "application/json",
   body |-> <<dumps(ErrorEnvelope(PyNone, PARSE_ERROR,
                      Fmt("Parse error: {str(e)}", Exc(e))))>>]

\* Response(generate(), mimetype='text/event-stream') whose generator yielded
\* the frames and returned.
StreamResponse(frames) ==
  [status |-> 200, mimetype |-> "text/event-stream", body |-> frames]

\* The generator raised before its first frame: the WSGI server answers with
\* its own 500 page, which carries no envelope.
AbortedResponse == [status |-> 500, mimetype |-> "text/html", body |-> <<>>]

\* generate(): the frames of a request whose handler returned or raised.
generate(message, outcome) ==
  IF ~IsDict(message) THEN AbortedResponse
  ELSE IF outcome.t = "return" THEN StreamResponse(<<create_sse_message(outcome.v)>>)
  ELSE StreamResponse(<<create_sse_message(
         ErrorEnvelope(Get(message, "id", PyNone), INTERNAL_ERROR,
           Fmt("Internal error: {str(e)}", outcome.v)))>>)

\* mcp_endpoint for a request that reaches no tool function.
mcp_endpoint(body) ==
  IF body = Malformed THEN ParseErrorResponse("BadRequest")
  ELSE IF ~Truthy(body) THEN ParseErrorResponse("ValueError")
  ELSE IF ~IsDict(body) THEN generate(body, Raise("AttributeError"))
  ELSE generate(body, process_mcp_message(body))

(***************************************************************************)
(* Requests the callers send.                                              *)
(***************************************************************************)
Absent == [k |-> "absent", v |-> 0]

\* The dictionary with the keys of f that are not Absent.
MkDict(f) == PyDict([key \in {x \in DOMAIN f : f[x] # Absent} |-> f[key]])

\* The rowid the first add_customer is given.
NEW_ID == NumSamples + 1

\* An id no record has: beyond every rowid an add_customer can be given.
UNKNOWN_ID == NEW_ID + MaxAdds + Cardinality(Threads)

IdInputs == {Absent, PyInt(7)}

NameInputs ==
  {PyNone, PyInt(5), PyStr(<<>>), PyStr(<<" ">>),
   PyStr(<<"X">>), PyStr(<<" ", "X", " ">>)}

EMAIL == PyStr(<<"e">>)
PHONE == PyStr(<<"p">>)

StatusInputs ==
  {Absent, PyNone, PyStr(<<>>), PyStr(S_active), PyStr(S_disabled),
   PyStr(S_bogus), PyInt(5)}

\* Customers are looked up among the sample rows and the added ones ...
ReadIdInputs ==
  {PyInt(1), PyInt(NEW_ID), PyInt(UNKNOWN_ID), PyStr(<<"1">>)}

\* ... and callers change the customer added first.
WriteIdInputs ==
  {PyInt(NEW_ID), PyInt(UNKNOWN_ID), PyStr(NatDigits(NEW_ID))}

\* An argument the signature of no tool has.
Extra(args) == PyDict([key \in DOMAIN args.v \cup {"verbose"} |->
                         IF key \in DOMAIN args.v THEN args.v[key] ELSE PyInt(1)])

GetArguments ==
  {MkDict([customer_id |-> c]) : c \in ReadIdInputs \cup {Absent}}
    \cup {Extra(MkDict([customer_id |-> PyInt(1)]))}

StatusArguments ==
  {MkDict([customer_id |-> c]) : c \in WriteIdInputs \cup {Absent}}
    \cup {Extra(MkDict([customer_id |-> PyInt(NEW_ID)]))}

ListArguments ==
  {MkDict([status |-> s]) : s \in StatusInputs} \cup {Extra(EmptyDict)}

\* The fields a caller supplies: a name alone, or a name to trim with the others.
FieldInputs ==
  {[name |-> n, email |-> Absent, phone |-> Absent] : n \in NameInputs \cup {Absent}}
    \cup {[name |-> n, email |-> e, phone |-> p] :
            n \in {Absent, PyStr(<<" ", "X", " ">>)},
            e \in {Absent, EMAIL}, p \in {Absent, PHONE}}

\* add_customer is called with a name alone, with a name to trim, an e-mail
\* and a phone, with a number for the e-mail, and with a status of its own.
AddArguments ==
  {MkDict([name |-> n]) : n \in NameInputs \cup {Absent}}
    \cup {MkDict([name |-> PyStr(<<" ", "X", " ">>), email |-> EMAIL, phone |-> PHONE]),
          MkDict([name |-> PyStr(<<"X">>), email |-> PyInt(5)]),
          MkDict([name |-> PyStr(<<"X">>), status |-> PyStr(S_disabled)])}

\* update_customer gets every choice of fields for the customer added first,
\* and a name or nothing for the other ids.
UpdateArguments ==
  {MkDict([customer_id |-> PyInt(NEW_ID),
           name |-> f.name, email |-> f.email, phone |-> f.phone]) : f \in FieldInputs}
    \cup {MkDict([customer_id |-> c, name |-> n]) :
            c \in WriteIdInputs, n \in {Absent, PyStr(<<"X">>), PyInt(5)}}
    \cup {MkDict([customer_id |-> PyInt(NEW_ID), email |-> PyInt(5)]),
          MkDict([name |-> PyStr(<<"X">>)]),
          MkDict([customer_id |-> PyInt(NEW_ID), name |-> PyStr(<<"X">>),
                  status |-> PyStr(S_disabled)])}

Arguments(tool) ==
  CASE tool = S_get_customer -> GetArguments
    [] tool = S_list_customers -> ListArguments
    [] tool = S_add_customer -> AddArguments
    [] tool = S_update_customer -> UpdateArguments
    [] OTHER -> StatusArguments

CallParams ==
  {Absent, PyNone, PyList(<<>>)}
    \cup {MkDict([name |-> n]) :
            n \in {Absent, PyStr(S_delete_customer), PyInt(5), PyList(<<>>)}}
    \cup {MkDict([name |-> PyStr(S_delete_customer), arguments |-> EmptyDict]),
          MkDict([name |-> PyStr(S_get_customer), arguments |-> PyNone])}
    \cup UNION {{MkDict([name |-> PyStr(tool), arguments |-> a]) :
                   a \in {Absent} \cup Arguments(tool)} :
                  tool \in tool_functions}

Request(id, method, params) ==
  MkDict([jsonrpc |-> PyStr(<<"2", ".", "0">>), id |-> id,
          method |-> method, params |-> params])

Bodies ==
  {Malformed, PyNone, EmptyDict, PyList(<<PyInt(1)>>), PyStr(S_ping)}
    \cup {Request(i, m, Absent) :
            i \in IdInputs,
            m \in {Absent, PyStr(S_initialize), PyStr(S_tools_list),
                   PyStr(S_ping), PyInt(5)}}
    \cup {Request(PyInt(7), m, EmptyDict) :
            m \in {PyStr(S_initialize), PyStr(S_tools_list), PyStr(S_ping)}}
    \cup {Request(PyStr(<<"a">>), m, PyInt(5)) :
            m \in {PyStr(S_initialize), PyStr(S_tools_list)}}
    \cup {Request(PyInt(7), PyStr(S_tools_call), p) : p \in CallParams}
    \cup {Request(Absent, PyStr(S_tools_call), p) :
            p \in {Absent,
                   MkDict([name |-> PyStr(S_delete_customer)]),
                   MkDict([name |-> PyStr(S_get_customer),
                           arguments |-> MkDict([customer_id |-> PyInt(1)])])}}

\* The requests answered without calling the store, and those calling each tool.
PlainBodies == {b \in Bodies : ~Invokes(b)}
ToolBodies(tool) ==
  {b \in Bodies : Invokes(b) /\ process_mcp_message(b).tool = tool}
GetBodies == ToolBodies(S_get_customer)
ListBodies == ToolBodies(S_list_customers)
AddBodies == ToolBodies(S_add_customer)
UpdateBodies == ToolBodies(S_update_customer)
DisableBodies == ToolBodies(S_disable_customer)
ActivateBodies == ToolBodies(S_activate_customer)

(***************************************************************************)
(* State.                                                                  *)
(***************************************************************************)
VARIABLES
  customers,        \* the customers table: rowid -> row
  sqlite_sequence,  \* AUTOINCREMENT: the largest rowid ever assigned
  clock,            \* CURRENT_TIMESTAMP
  pc,               \* per thread: "idle", "write", "readback", "closed"
  message,          \* per thread: the request body it is serving
  customer_id,      \* per thread: customer_id of the running store operation
  response,         \* per thread: the HTTP response sent so far
  fresh             \* history: rowid -> the arguments of the add_customer that
                    \* created the row, for the rows not updated since

vars ==
  <<customers, sqlite_sequence, clock, pc, message, customer_id, response, fresh>>

store == <<customers, sqlite_sequence, clock, fresh>>

NoMessage == [k |-> "none", v |-> 0]

Init ==
  /\ customers = init_database
  /\ sqlite_sequence = NumSamples
  /\ clock = 0
  /\ pc = [t \in Threads |-> "idle"]
  /\ message = [t \in Threads |-> NoMessage]
  /\ customer_id = [t \in Threads |-> PyNone]
  /\ response = [t \in Threads |-> NoResponse]
  /\ fresh = <<>>

\* The bound parameters of the tool call thread t serves.
Args(body) == process_mcp_message(body).args
Tool(body) == process_mcp_message(body).tool

\* The tool function returned: handle_tools_call wraps the dictionary, generate
\* yields the frame and ends, the stream closes.
Answer(t, body, result) ==
  /\ response' = [response EXCEPT ![t] = generate(body, Return(tool_result(body, result)))]
  /\ pc' = [pc EXCEPT ![t] = "closed"]

\* The tool function goes on to its next statement.
Goto(t, label) ==
  /\ pc' = [pc EXCEPT ![t] = label]
  /\ UNCHANGED response

\* POST /mcp with a body that reaches no tool function.
Post(t, body) ==
  /\ pc[t] = "idle"
  /\ message' = [message EXCEPT ![t] = body]
  /\ response' = [response EXCEPT ![t] = mcp_endpoint(body)]
  /\ pc' = [pc EXCEPT ![t] = "closed"]
  /\ UNCHANGED <<store, customer_id>>

\* tools/call get_customer
GetCustomer(t, body, fault) ==
  /\ pc[t] = "idle"
  /\ message' = [message EXCEPT ![t] = body]
  /\ Answer(t, body, get_customer(customers, Args(body).customer_id, fault))
  /\ UNCHANGED <<store, customer_id>>

\* tools/call list_customers
ListCustomers(t, body, fault) ==
  /\ pc[t] = "idle"
  /\ message' = [message EXCEPT ![t] = body]
  /\ \E result \in list_customers(customers, Args(body).status, fault) :
       Answer(t, body, result)
  /\ UNCHANGED <<store, customer_id>>

\* tools/call add_customer, to the commit of its INSERT, while fewer than
\* cap customers were added
AddUpTo(t, body, fault, cap) ==
  /\ pc[t] = "idle"
  /\ message' = [message EXCEPT ![t] = body]
  /\ LET a == Args(body)
         check == add_customer_check(a.name, a.email, a.phone, fault)
         rowid == NextRowid(customers, sqlite_sequence)
     IN IF Returned(check)
          THEN /\ Answer(t, body, check)
               /\ UNCHANGED <<store, customer_id>>
          ELSE /\ sqlite_sequence < NumSamples + cap
               /\ customers' = customers @@
                    (rowid :> InsertRow(rowid, a.name, a.email, a.phone, clock))
               /\ sqlite_sequence' = rowid
               /\ customer_id' = [customer_id EXCEPT ![t] = PyInt(rowid)]
               /\ fresh' = fresh @@ (rowid :> a)
               /\ Goto(t, "readback")
               /\ UNCHANGED clock

AddCustomer(t, body, fault) == AddUpTo(t, body, fault, MaxAdds)

\* tools/call update_customer, to its UPDATE statement
UpdateCustomer(t, body, fault) ==
  /\ pc[t] = "idle"
  /\ message' = [message EXCEPT ![t] = body]
  /\ LET a == Args(body)
         check == update_customer_check(customers, a.customer_id, a.name,
                                        a.email, a.phone, fault)
     IN IF Returned(check)
          THEN /\ Answer(t, body, check)
               /\ UNCHANGED <<store, customer_id>>
          ELSE /\ customer_id' = [customer_id EXCEPT ![t] = a.customer_id]
               /\ Goto(t, "write")
               /\ UNCHANGED store

\* tools/call disable_customer or activate_customer, to its UPDATE statement
SetStatus(t, body, fault) ==
  /\ pc[t] = "idle"
  /\ message' = [message EXCEPT ![t] = body]
  /\ LET check == status_check(customers, Args(body).customer_id, fault)
     IN IF Returned(check)
          THEN /\ Answer(t, body, check)
               /\ UNCHANGED <<store, customer_id>>
          ELSE /\ customer_id' = [customer_id EXCEPT ![t] = Args(body).customer_id]
               /\ Goto(t, "write")
               /\ UNCHANGED store

DisableCustomer(t, body, fault) == SetStatus(t, body, fault)

ActivateCustomer(t, body, fault) == SetStatus(t, body, fault)

\* The row the UPDATE statement of thread t writes in place of row.
Written(t, row) ==
  LET a == Args(message[t]) IN
  CASE Tool(message[t]) = S_update_customer ->
         UpdateRow(row, a.name, a.email, a.phone, clock)
    [] Tool(message[t]) = S_disable_customer -> StatusRow(row, S_disabled, clock)
    [] Tool(message[t]) = S_activate_customer -> StatusRow(row, S_active, clock)

\* The UPDATE statement and its commit.
Write(t, fault) ==
  /\ pc[t] = "write"
  /\ IF fault
       THEN /\ Answer(t, message[t], DatabaseError(Exc("OperationalError")))
            /\ UNCHANGED <<customers, fresh>>
       ELSE /\ customers' =
                 [i \in DOMAIN customers |->
                    IF i \in WhereId(customers, customer_id[t])
                      THEN Written(t, customers[i])
                      ELSE customers[i]]
            /\ fresh' = [i \in DOMAIN fresh \ WhereId(customers, customer_id[t]) |->
                            fresh[i]]
            /\ Goto(t, "readback")
  /\ UNCHANGED <<sqlite_sequence, clock, message, customer_id>>

\* The closing SELECT: the tool function returns.
ReadBack(t, fault) ==
  /\ pc[t] = "readback"
  /\ Answer(t, message[t],
            read_back(customers, Tool(message[t]), customer_id[t], fault))
  /\ UNCHANGED <<store, message, customer_id>>

\* A thread that keeps the request it served and its response for the next one.
ReleaseInSession(t) ==
  /\ pc[t] = "closed"
  /\ pc' = [pc EXCEPT ![t] = "idle"]
  /\ UNCHANGED <<store, message, customer_id, response>>

\* The connection is gone; the thread takes the next request.
Release(t) ==
  /\ pc[t] = "closed"
  /\ pc' = [pc EXCEPT ![t] = "idle"]
  /\ message' = [message EXCEPT ![t] = NoMessage]
  /\ customer_id' = [customer_id EXCEPT ![t] = PyNone]
  /\ response' = [response EXCEPT ![t] = NoResponse]
  /\ UNCHANGED store

\* Time passes.
Tick ==
  /\ clock < MaxClock
  /\ clock' = clock + 1
  /\ UNCHANGED <<customers, sqlite_sequence, fresh, pc, message, customer_id, response>>

\* The steps of the threads T.
Serve(T) ==
  \/ \E t \in T, body \in PlainBodies : Post(t, body)
  \/ \E t \in T, body \in GetBodies, fault \in BOOLEAN :
       GetCustomer(t, body, fault)
  \/ \E t \in T, body \in ListBodies, fault \in BOOLEAN :
       ListCustomers(t, body, fault)
  \/ \E t \in T, body \in AddBodies, fault \in BOOLEAN :
       AddCustomer(t, body, fault)
  \/ \E t \in T, body \in UpdateBodies, fault \in BOOLEAN :
       UpdateCustomer(t, body, fault)
  \/ \E t \in T, body \in DisableBodies, fault \in BOOLEAN :
       DisableCustomer(t, body, fault)
  \/ \E t \in T, body \in ActivateBodies, fault \in BOOLEAN :
       ActivateCustomer(t, body, fault)
  \/ \E t \in T, fault \in BOOLEAN : Write(t, fault)
  \/ \E t \in T, fault \in BOOLEAN : ReadBack(t, fault)
  \/ \E t \in T : Release(t)

\* One request at a time: a single thread serves every shape of request.
Next == Serve({1}) \/ Tick

Spec == Init /\ [][Next]_vars

(***************************************************************************)
(* Concurrent callers: every thread serves one request on the first sample *)
(* customer, each statement of a store operation a step of its own.        *)
(***************************************************************************)
ToolCall(tool, arguments) ==
  Request(PyInt(7), PyStr(S_tools_call),
          MkDict([name |-> PyStr(tool), arguments |-> arguments]))

RacingAdds == {ToolCall(S_add_customer, MkDict([name |-> PyStr(<<"X">>)]))}

\* Two updates of disjoint fields of the same customer.
RacingUpdates ==
  {ToolCall(S_update_customer, MkDict([customer_id |-> PyInt(1), email |-> EMAIL])),
   ToolCall(S_update_customer, MkDict([customer_id |-> PyInt(1), phone |-> PHONE]))}

RacingDisables ==
  {ToolCall(S_disable_customer, MkDict([customer_id |-> PyInt(1)]))}

RacingActivates ==
  {ToolCall(S_activate_customer, MkDict([customer_id |-> PyInt(1)]))}

\* The threads do not take a second request, so every thread may add one
\* customer.
Concurrent(T) ==
  \/ \E t \in T, body \in RacingAdds : AddUpTo(t, body, FALSE, Cardinality(T))
  \/ \E t \in T, body \in RacingUpdates : UpdateCustomer(t, body, FALSE)
  \/ \E t \in T, body \in RacingDisables : DisableCustomer(t, body, FALSE)
  \/ \E t \in T, body \in RacingActivates : ActivateCustomer(t, body, FALSE)
  \/ \E t \in T : Write(t, FALSE)
  \/ \E t \in T : ReadBack(t, FALSE)

NextConcurrent == Concurrent(Threads) \/ Tick

SpecConcurrent == Init /\ [][NextConcurrent]_vars

(***************************************************************************)
(* Reading requests and responses.                                         *)
(***************************************************************************)
\* The envelope a chunk of a response body carries.
EnvelopeOf(chunk) ==
  IF "frame" \in DOMAIN chunk THEN chunk.data.json ELSE chunk.json

EnvelopesIn(resp) == {EnvelopeOf(resp.body[i]) : i \in DOMAIN resp.body}

IsError(e, code) == "error" \in DOMAIN e /\ e.error.code = code

IsResult(e) == "result" \in DOMAIN e /\ "error" \notin DOMAIN e

\* The dictionary of the store a tools/call result carries.
Payload(e) == e.result.content[1].text.json

IsObject(body) == body # Malformed /\ body # NoMessage /\ IsDict(body)

MethodOf(body) == Get(body, "method", PyNone)

IsToolsCall(body) == IsObject(body) /\ MethodOf(body) = PyStr(S_tools_call)

\* A tools/call with params.name and params.arguments to be read.
HasParams(body) == IsToolsCall(body) /\ IsDict(Get(body, "params", EmptyDict))

NameOf(body) == Get(Get(body, "params", EmptyDict), "name", PyNone)

ArgumentsOf(body) == Get(Get(body, "params", EmptyDict), "arguments", EmptyDict)

Registered(body) ==
  HasParams(body) /\ IsStr(NameOf(body)) /\ NameOf(body).v \in tool_functions

\* The thread received a request in this step.
Received(t) == pc[t] = "idle" /\ pc'[t] # "idle"

\* The thread is serving a request after this step.
Serving(t) == pc'[t] # "idle"

StoreUnchanged == customers' = customers /\ sqlite_sequence' = sqlite_sequence

(***************************************************************************)
(* Properties.                                                             *)
(***************************************************************************)

\* C1: every request whose body is a JSON value is answered with exactly one
\* response envelope (one SSE frame or the one 400 body) before the stream
\* closes, never none and never more.
C1_ExactlyOneEnvelope ==
  \A t \in Threads :
    (pc[t] = "closed" /\ message[t] # Malformed) => Len(response[t].body) = 1

\* C2: every envelope answering a parsed request carries the id of the request
\* (null when it has none) and exactly one of result and error.
C2_EnvelopeShape ==
  \A t \in Threads :
    pc[t] = "closed" /\ Parses(message[t]) =>
      \A e \in EnvelopesIn(response[t]) :
        /\ e.id = Get(message[t], "id", PyNone)
        /\ ("result" \in DOMAIN e) # ("error" \in DOMAIN e)

\* C2 witness: a tools/call with an id was answered with a result under that id.
C2_Witness ==
  \E t \in Threads :
    /\ pc[t] = "closed"
    /\ IsToolsCall(message[t])
    /\ Get(message[t], "id", PyNone) = PyInt(7)
    /\ \E e \in EnvelopesIn(response[t]) : IsResult(e) /\ e.id = PyInt(7)

\* A domain-validation fault of a tools/call that reaches the store: an invalid
\* status filter, a blank name, an update without fields, an id no record has.
DomainFault(body) ==
  LET tool == Tool(body)
      a == Args(body)
  IN \/ /\ tool = S_list_customers
        /\ a.status \notin {PyNone, PyStr(S_active), PyStr(S_disabled)}
     \/ /\ tool \in {S_add_customer, S_update_customer}
        /\ IsStr(a.name)
        /\ Strip(a.name.v) = <<>>
     \/ /\ tool = S_update_customer
        /\ a.name = PyNone /\ a.email = PyNone /\ a.phone = PyNone
     \/ /\ tool \in {S_get_customer, S_update_customer,
                     S_disable_customer, S_activate_customer}
        /\ a.customer_id = PyInt(UNKNOWN_ID)

\* C3: a domain-validation fault of a bound tools/call is answered with a
\* result whose dictionary has success = false and an error message, never
\* with a protocol error.
C3_DomainFaultsAreResults ==
  \A t \in Threads :
    (pc[t] = "closed" /\ Invokes(message[t]) /\ DomainFault(message[t])) =>
      /\ EnvelopesIn(response[t]) # {}
      /\ \A e \in EnvelopesIn(response[t]) :
           /\ IsResult(e)
           /\ Payload(e).success = FALSE
           /\ "error" \in DOMAIN Payload(e)

\* C4: a tools/call naming no registered operation is answered with -32601 and
\* reaches no store operation, so the table is unchanged.
C4_UnknownTool ==
  [][\A t \in Threads :
       (Received(t) /\ HasParams(message'[t]) /\ ~Registered(message'[t])) =>
         /\ pc'[t] = "closed"
         /\ StoreUnchanged
         /\ \E e \in EnvelopesIn(response'[t]) : IsError(e, METHOD_NOT_FOUND)]_vars

\* The schema the catalog advertises for a tool.
SchemaOf(tool) ==
  MCP_TOOLS[CHOOSE i \in DOMAIN MCP_TOOLS : MCP_TOOLS[i].name = tool].inputSchema

\* A number where the schema says string, or a string where it says integer.
WrongType(x, type) ==
  \/ type = "string" /\ x.k = "int"
  \/ type = "integer" /\ x.k = "str"

\* The arguments of a call on a registered tool do not match its parameters.
ShapeMismatch(body) ==
  /\ Registered(body)
  /\ LET tool == NameOf(body).v
         arguments == ArgumentsOf(body)
     IN \/ ~Binds(tool, arguments)
        \/ \E p \in DOMAIN arguments.v \cap DOMAIN SchemaOf(tool).properties :
             WrongType(arguments.v[p], SchemaOf(tool).properties[p].type)

\* C5: a tools/call whose arguments do not match the parameters of the
\* operation (wrong type, missing, extra) is answered with -32602 and leaves
\* the table unchanged.
C5_ShapeMismatch ==
  [][\A t \in Threads :
       (Serving(t) /\ ShapeMismatch(message'[t])) =>
         /\ StoreUnchanged
         /\ pc'[t] = "closed" =>
              \E e \in EnvelopesIn(response'[t]) : IsError(e, INVALID_PARAMS)]_vars

\* A statement of the store operation thread t runs raises in this step.
StorageFault(t) ==
  \/ \E body \in GetBodies : GetCustomer(t, body, TRUE)
  \/ \E body \in ListBodies : ListCustomers(t, body, TRUE)
  \/ \E body \in AddBodies :
       /\ add_customer_check(Args(body).name, Args(body).email,
                             Args(body).phone, FALSE) = Proceed
       /\ AddCustomer(t, body, TRUE)
  \/ \E body \in UpdateBodies : UpdateCustomer(t, body, TRUE)
  \/ \E body \in DisableBodies : DisableCustomer(t, body, TRUE)
  \/ \E body \in ActivateBodies : ActivateCustomer(t, body, TRUE)
  \/ Write(t, TRUE)
  \/ ReadBack(t, TRUE)

\* C6: a storage fault inside a store operation is answered with the protocol
\* error -32603, not with a result.
C6_StorageFaultIsInternalError ==
  [][\A t \in Threads :
       StorageFault(t) =>
         /\ pc'[t] = "closed"
         /\ \E e \in EnvelopesIn(response'[t]) : IsError(e, INTERNAL_ERROR)
         /\ \A e \in EnvelopesIn(response'[t]) : "result" \notin DOMAIN e]_vars

\* C7: a body that is not a structured message with a method field ends in
\* the parse error -32700.
C7_NoMethodIsParseError ==
  \A t \in Threads :
    (pc[t] = "closed"
       /\ ~(IsObject(message[t]) /\ "method" \in DOMAIN message[t].v)) =>
      /\ EnvelopesIn(response[t]) # {}
      /\ \A e \in EnvelopesIn(response[t]) : IsError(e, PARSE_ERROR)

\* C8: a malformed JSON body is answered with HTTP 400 carrying one envelope
\* with id null and code -32700; no handler runs and the table is unchanged.
C8_MalformedBody ==
  [][\A t \in Threads :
       (Received(t) /\ message'[t] = Malformed) =>
         /\ pc'[t] = "closed"
         /\ response'[t].status = 400
         /\ Len(response'[t].body) = 1
         /\ \A e \in EnvelopesIn(response'[t]) :
              IsError(e, PARSE_ERROR) /\ e.id = PyNone /\ "result" \notin DOMAIN e
         /\ StoreUnchanged]_vars

\* C8 witness: a malformed body was answered with HTTP 400 and -32700.
C8_Witness ==
  \E t \in Threads :
    /\ pc[t] = "closed"
    /\ message[t] = Malformed
    /\ response[t].status = 400
    /\ \E e \in EnvelopesIn(response[t]) : IsError(e, PARSE_ERROR)

\* The method of the request is a string naming no method of the gateway.
UnknownMethod(body) ==
  /\ IsObject(body)
  /\ IsStr(MethodOf(body))
  /\ MethodOf(body).v \notin {S_initialize, S_tools_list, S_tools_call}

\* C9: a request whose method is any other string than initialize, tools/list
\* and tools/call is answered with -32601 and leaves the table unchanged.
C9_UnknownMethod ==
  [][\A t \in Threads :
       (Received(t) /\ UnknownMethod(message'[t])) =>
         /\ pc'[t] = "closed"
         /\ \E e \in EnvelopesIn(response'[t]) : IsError(e, METHOD_NOT_FOUND)
         /\ \A e \in EnvelopesIn(response'[t]) : IsError(e, METHOD_NOT_FOUND)
         /\ StoreUnchanged]_vars

\* C9 witness: a request with an unknown method was answered with -32601.
C9_Witness ==
  \E t \in Threads :
    /\ pc[t] = "closed"
    /\ UnknownMethod(message[t])
    /\ \E e \in EnvelopesIn(response[t]) : IsError(e, METHOD_NOT_FOUND)

\* The customers a get_customer of thread t returned that no update touched
\* since add_customer created them.
FreshlyFetched(t) ==
  IF pc[t] = "closed" /\ Invokes(message[t]) /\ Tool(message[t]) = S_get_customer
    THEN {Payload(e).customer :
            e \in {x \in EnvelopesIn(response[t]) :
                     /\ IsResult(x)
                     /\ Payload(x).success
                     /\ Payload(x).customer.id.v \in DOMAIN fresh}}
    ELSE {}

\* C10 as claimed: a customer fetched after add_customer has the name, e-mail
\* and phone the caller supplied, status active and created_at = updated_at.
C10_RoundTripAsSupplied ==
  \A t \in Threads :
    \A c \in FreshlyFetched(t) :
      /\ c.name = fresh[c.id.v].name
      /\ c.email = fresh[c.id.v].email
      /\ c.phone = fresh[c.id.v].phone
      /\ c.status = PyStr(S_active)
      /\ c.created_at = c.updated_at

\* The arguments of an add_customer have the types its schema declares.
Typed(a) ==
  /\ IsStr(a.name)
  /\ a.email = PyNone \/ IsStr(a.email)
  /\ a.phone = PyNone \/ IsStr(a.phone)

\* C10 amended: for arguments of the declared types, the name fetched is the
\* supplied name without its surrounding whitespace; e-mail and phone are as
\* supplied (null when absent), status is active and created_at = updated_at.
C10_RoundTripTrimmed ==
  \A t \in Threads :
    \A c \in {x \in FreshlyFetched(t) : Typed(fresh[x.id.v])} :
      /\ c.name = PyStr(Strip(fresh[c.id.v].name.v))
      /\ c.email = fresh[c.id.v].email
      /\ c.phone = fresh[c.id.v].phone
      /\ c.status = PyStr(S_active)
      /\ c.created_at = c.updated_at

\* C10 witness: a customer added with a padded name, an e-mail and a phone
\* was fetched.
C10_Witness ==
  \E t \in Threads :
    \E c \in FreshlyFetched(t) :
      /\ fresh[c.id.v].name = PyStr(<<" ", "X", " ">>)
      /\ fresh[c.id.v].email = EMAIL
      /\ fresh[c.id.v].phone = PHONE

\* The name is null, empty or only whitespace.
BlankName(name) == name = PyNone \/ (IsStr(name) /\ Strip(name.v) = <<>>)

\* Thread t holds a result whose dictionary is payload.
Returns(t, payload) ==
  /\ pc'[t] = "closed"
  /\ \E e \in EnvelopesIn(response'[t]) : IsResult(e) /\ Payload(e) = payload

\* Thread t holds a result whose dictionary has success = true.
Succeeds(t) ==
  /\ pc'[t] = "closed"
  /\ \E e \in EnvelopesIn(response'[t]) : IsResult(e) /\ Payload(e).success

\* The step adds exactly one record and leaves the others as they were.
OneRecordAdded ==
  /\ Cardinality(DOMAIN customers') = Cardinality(DOMAIN customers) + 1
  /\ \A i \in DOMAIN customers : i \in DOMAIN customers' /\ customers'[i] = customers[i]

\* Thread t took a call of tool in this step and the storage raised nothing.
Calls(t, tool) ==
  /\ Received(t)
  /\ Registered(message'[t])
  /\ NameOf(message'[t]).v = tool
  /\ Invokes(message'[t])
  /\ CASE tool = S_get_customer -> GetCustomer(t, message'[t], FALSE)
       [] tool = S_list_customers -> ListCustomers(t, message'[t], FALSE)
       [] tool = S_add_customer -> AddCustomer(t, message'[t], FALSE)
       [] tool = S_update_customer -> UpdateCustomer(t, message'[t], FALSE)
       [] tool = S_disable_customer -> DisableCustomer(t, message'[t], FALSE)
       [] tool = S_activate_customer -> ActivateCustomer(t, message'[t], FALSE)

Inserted(t) ==
  /\ pc[t] = "idle"
  /\ pc'[t] = "readback"
  /\ Tool(message'[t]) = S_add_customer

\* The ids of the customers add_customer returned to thread t with success.
AddedId(t) ==
  IF pc[t] = "closed" /\ Invokes(message[t]) /\ Tool(message[t]) = S_add_customer
    THEN {Payload(e).customer.id :
            e \in {x \in EnvelopesIn(response[t]) : IsResult(x) /\ Payload(x).success}}
    ELSE {}

\* C12: the INSERT of add_customer gives the new record the id (largest id in
\* the table just before the insert) + 1, the record returned carries that id,
\* and no two add_customer calls, concurrent ones included, return the same id.
C12_IdentityAssignment ==
  [][\A t \in Threads :
       /\ Inserted(t) =>
            LET id == MaxId(customers) + 1 IN
            /\ customer_id'[t] = PyInt(id)
            /\ DOMAIN customers' = DOMAIN customers \cup {id}
            /\ customers'[id].id = SqlInt(id)
            /\ \A i \in DOMAIN customers : customers'[i] = customers[i]
       /\ (ReadBack(t, FALSE) /\ Tool(message[t]) = S_add_customer) =>
            /\ Succeeds(t)
            /\ \A e \in EnvelopesIn(response'[t]) :
                 Payload(e).customer.id = customer_id[t]
       /\ \A u \in Threads \ {t} : AddedId(t)' \cap AddedId(u)' = {}]_vars

\* C12 witness: two add_customer calls that ran at the same time both returned,
\* one with id 11 and one with id 12.
C12_Witness ==
  /\ AddedId(1) = {PyInt(NEW_ID)}
  /\ AddedId(2) = {PyInt(NEW_ID + 1)}

\* The status disable_customer and activate_customer write.
StatusOf(tool) == IF tool = S_disable_customer THEN S_disabled ELSE S_active

\* Thread t executed and committed its UPDATE in this step.
Wrote(t) == pc[t] = "write" /\ pc'[t] = "readback"

\* Thread t runs the UPDATE of disable_customer or activate_customer.
StatusWrite(t) ==
  /\ Wrote(t)
  /\ Tool(message[t]) \in {S_disable_customer, S_activate_customer}

\* Thread t holds the successful result of a call of tool on customer id.
Done(t, tool, id) ==
  /\ pc[t] = "closed"
  /\ Invokes(message[t])
  /\ Tool(message[t]) = tool
  /\ Args(message[t]).customer_id = PyInt(id)
  /\ \E e \in EnvelopesIn(response[t]) : IsResult(e) /\ Payload(e).success

\* C13: disable_customer on a record that is already disabled (and
\* activate_customer on one already active) succeeds; its UPDATE leaves the
\* status and every field but updated_at as they were, moves updated_at to a
\* time not earlier than before, and changes no other record.
C13_IdempotentStatus ==
  [][\A t \in Threads :
       /\ StatusWrite(t) =>
            \A i \in DOMAIN customers :
              IF i \in WhereId(customers, customer_id[t])
                   /\ customers[i].status = SqlText(StatusOf(Tool(message[t])))
                THEN /\ customers'[i] =
                          [customers[i] EXCEPT !.updated_at = customers'[i].updated_at]
                     /\ customers'[i].updated_at.v >= customers[i].updated_at.v
                ELSE i \notin WhereId(customers, customer_id[t]) =>
                       customers'[i] = customers[i]
       /\ (ReadBack(t, FALSE)
             /\ Tool(message[t]) \in {S_disable_customer, S_activate_customer}) =>
            Succeeds(t)]_vars

\* C13 witness: the only two requests served were disable_customer calls on the
\* same customer and both returned success, so the UPDATE of the later one
\* found the record already disabled.
C13_Witness ==
  /\ Done(1, S_disable_customer, 1)
  /\ Done(2, S_disable_customer, 1)
  /\ customers[1].status = SqlText(S_disabled)

\* The records of a dictionary list_customers returned.
RecordsOf(result) == {result.customers[i] : i \in DOMAIN result.customers}

\* On the table tbl, the records list_customers returns for status "active"
\* and for status "disabled" are disjoint, together they are the records it
\* returns without a filter, and no list holds a record twice or leaves one out.
Exhaustive(tbl) ==
  \A active \in list_customers(tbl, PyStr(S_active), FALSE),
     disabled \in list_customers(tbl, PyStr(S_disabled), FALSE),
     all \in list_customers(tbl, PyNone, FALSE) :
    /\ active.success /\ disabled.success /\ all.success
    /\ RecordsOf(active) \cap RecordsOf(disabled) = {}
    /\ RecordsOf(active) \cup RecordsOf(disabled) = RecordsOf(all)
    /\ Len(active.customers) + Len(disabled.customers) = Len(all.customers)
    /\ Cardinality(RecordsOf(all)) = Len(all.customers)
    /\ Cardinality(RecordsOf(all)) = Cardinality(DOMAIN tbl)

\* C14: in every reachable state of the table the two filtered lists of
\* list_customers are disjoint and partition the unfiltered one, with no
\* record twice and none left out.
C14_FilterExhaustive == Exhaustive(customers)

\* C14 witness: the first sample was disabled and a customer was added;
\* list_customers returns the one among the disabled records, next to the
\* disabled samples, and the other among the active ones.
C14_Witness ==
  /\ NEW_ID \in DOMAIN customers
  /\ customers[1].status = SqlText(S_disabled)
  /\ \E disabled \in list_customers(customers, PyStr(S_disabled), FALSE) :
       /\ row_to_dict(customers[1]) \in RecordsOf(disabled)
       /\ Cardinality(RecordsOf(disabled)) > 1
  /\ \E active \in list_customers(customers, PyStr(S_active), FALSE) :
       row_to_dict(customers[NEW_ID]) \in RecordsOf(active)

\* C15: list_customers returns the validation failure for every supplied
\* status other than "active" and "disabled", the empty string included, and
\* returns records only for an absent status or one of the two.
C15_StatusValidation ==
  [][\A t \in Threads :
       Calls(t, S_list_customers) =>
         LET status == Args(message'[t]).status
             valid == status \in {PyNone, PyStr(S_active), PyStr(S_disabled)}
         IN /\ ~valid => Returns(t, BadStatus)
            /\ Succeeds(t) => valid]_vars

\* Thread t runs the UPDATE of update_customer.
UpdateWrite(t) == Wrote(t) /\ Tool(message[t]) = S_update_customer

\* The supplied fields have the types the schema of update_customer declares.
TypedFields(a) ==
  /\ a.name = PyNone \/ IsStr(a.name)
  /\ a.email = PyNone \/ IsStr(a.email)
  /\ a.phone = PyNone \/ IsStr(a.phone)

\* The UPDATE of thread t leaves alone what update_customer is not to change:
\* id, status and created_at of the record, and every other record; it sets
\* updated_at to the current time.
UpdateFrame(t) ==
  \A i \in DOMAIN customers :
    IF i \in WhereId(customers, customer_id[t])
      THEN /\ customers'[i].id = customers[i].id
           /\ customers'[i].status = customers[i].status
           /\ customers'[i].created_at = customers[i].created_at
           /\ customers'[i].updated_at = SqlTime(clock)
      ELSE customers'[i] = customers[i]

\* The read-back of update_customer returns success with the record as stored.
UpdateReturns(t) ==
  (ReadBack(t, FALSE) /\ Tool(message[t]) = S_update_customer) =>
    /\ Succeeds(t)
    /\ \A e \in EnvelopesIn(response'[t]) :
         Payload(e).customer = row_to_dict(FetchOne(customers, customer_id[t]))

\* C16 as claimed: a successful update_customer sets exactly the supplied
\* fields of the record to the supplied values and refreshes updated_at; the
\* fields not supplied, id, status, created_at and every other record are
\* unchanged.
C16_UpdateAsSupplied ==
  [][\A t \in Threads :
       /\ UpdateWrite(t) =>
            LET a == Args(message[t]) IN
            /\ UpdateFrame(t)
            /\ \A i \in WhereId(customers, customer_id[t]) :
                 LET old == row_to_dict(customers[i])
                     new == row_to_dict(customers'[i])
                 IN /\ new.name = IF a.name # PyNone THEN a.name ELSE old.name
                    /\ new.email = IF a.email # PyNone THEN a.email ELSE old.email
                    /\ new.phone = IF a.phone # PyNone THEN a.phone ELSE old.phone
       /\ UpdateReturns(t)]_vars

\* C16 amended: for fields of the declared types, the name is set to the
\* supplied name without its surrounding whitespace, e-mail and phone to the
\* supplied values, updated_at to the current time; the fields not supplied,
\* id, status, created_at and every other record are unchanged.
C16_UpdateTrimmed ==
  [][\A t \in Threads :
       /\ (UpdateWrite(t) /\ TypedFields(Args(message[t]))) =>
            LET a == Args(message[t]) IN
            /\ UpdateFrame(t)
            /\ \A i \in WhereId(customers, customer_id[t]) :
                 LET old == row_to_dict(customers[i])
                     new == row_to_dict(customers'[i])
                 IN /\ new.name = IF a.name # PyNone THEN PyStr(Strip(a.name.v))
                                                     ELSE old.name
                    /\ new.email = IF a.email # PyNone THEN a.email ELSE old.email
                    /\ new.phone = IF a.phone # PyNone THEN a.phone ELSE old.phone
       /\ UpdateReturns(t)]_vars

\* C16 witness: update_customer with a padded name and an e-mail returned
\* success; the record has the trimmed name and the e-mail.
C16_Witness ==
  \E t \in Threads :
    /\ Done(t, S_update_customer, NEW_ID)
    /\ Args(message[t]).name = PyStr(<<" ", "X", " ">>)
    /\ Args(message[t]).email = EMAIL
    /\ Args(message[t]).phone = PyNone
    /\ customers[NEW_ID].name = SqlText(<<"X">>)
    /\ customers[NEW_ID].email = SqlText(EMAIL.v)

\* None of name, email and phone is supplied.
NoFieldsSupplied(a) == a.name = PyNone /\ a.email = PyNone /\ a.phone = PyNone

\* C17: update_customer, disable_customer and activate_customer on an id no
\* record has return not-found, update_customer on an existing id without
\* fields returns 'No fields to update' (not-found when the id does not exist
\* either), and in these cases the table is unchanged.
C17_FailuresChangeNothing ==
  [][\A t \in Threads :
       /\ Calls(t, S_update_customer) =>
            LET a == Args(message'[t])
                found == HasRow(customers, a.customer_id)
            IN /\ ~found => Returns(t, NotFound(a.customer_id)) /\ StoreUnchanged
               /\ (NoFieldsSupplied(a) /\ found) => Returns(t, NoFields) /\ StoreUnchanged
       /\ (Calls(t, S_disable_customer) \/ Calls(t, S_activate_customer)) =>
            LET a == Args(message'[t]) IN
            ~HasRow(customers, a.customer_id) =>
              Returns(t, NotFound(a.customer_id)) /\ StoreUnchanged]_vars

\* C17 witness: update_customer without fields on an id no record has returned
\* not-found.
C17_Witness ==
  \E t \in Threads :
    /\ pc[t] = "closed"
    /\ Invokes(message[t])
    /\ Tool(message[t]) = S_update_customer
    /\ Args(message[t]).customer_id = PyInt(UNKNOWN_ID)
    /\ NoFieldsSupplied(Args(message[t]))
    /\ \E e \in EnvelopesIn(response[t]) :
         IsResult(e) /\ Payload(e) = NotFound(PyInt(UNKNOWN_ID))

\* C18: after any sequence of add_customer, update_customer, disable_customer
\* and activate_customer calls every record has a name that is a text and is
\* non-empty after trimming its surrounding whitespace.
C18_NameNeverEmpty ==
  \A i \in DOMAIN customers :
    /\ customers[i].name.k = "TEXT"
    /\ Strip(customers[i].name.v) # <<>>

\* Every record of tbl was updated no earlier than it was created.
TimestampsOrdered(tbl) ==
  \A i \in DOMAIN tbl : tbl[i].updated_at.v >= tbl[i].created_at.v

\* C19: every record has updated_at >= created_at, initially and after every
\* step, and the UPDATE of update_customer, disable_customer and
\* activate_customer sets updated_at of its record to the current time, which
\* is not earlier than the value before.
C19_Timestamps ==
  /\ TimestampsOrdered(customers)
  /\ [][/\ TimestampsOrdered(customers')
        /\ \A t \in Threads :
             Wrote(t) =>
               \A i \in WhereId(customers, customer_id[t]) :
                 /\ customers'[i].updated_at = SqlTime(clock)
                 /\ customers'[i].updated_at.v >= customers[i].updated_at.v]_vars

\* C19 witness: a successful update_customer left its record with updated_at
\* later than created_at.
C19_Witness ==
  \E t \in Threads :
    /\ Done(t, S_update_customer, NEW_ID)
    /\ customers[NEW_ID].updated_at.v > customers[NEW_ID].created_at.v

\* C20: every step keeps every record in the table under the same id and with
\* the same created_at, so no request deletes a record or changes its identity
\* and the number of records never decreases.
C20_RecordsPermanent ==
  [][/\ \A i \in DOMAIN customers :
          /\ i \in DOMAIN customers'
          /\ customers[i].id = SqlInt(i)
          /\ customers'[i].id = customers[i].id
          /\ customers'[i].created_at = customers[i].created_at
     /\ Cardinality(DOMAIN customers') >= Cardinality(DOMAIN customers)]_vars

\* C20 witness: the customer added first was changed at a later time by a
\* successful activate_customer and is in the table under its id, with the
\* samples.
C20_Witness ==
  \E t \in Threads :
    /\ Done(t, S_activate_customer, NEW_ID)
    /\ customers[NEW_ID].id = SqlInt(NEW_ID)
    /\ customers[NEW_ID].created_at.v < customers[NEW_ID].updated_at.v
    /\ Cardinality(DOMAIN customers) = NumSamples + 1

\* Every record of tbl has the status 'active' or 'disabled'.
StatusEnumerated(tbl) ==
  \A i \in DOMAIN tbl : tbl[i].status \in {SqlText(S_active), SqlText(S_disabled)}

\* C21: every record's status is 'active' or 'disabled', initially and after
\* every step; a record a step adds is active; and a step changes the status of
\* a record only as the UPDATE of disable_customer (to disabled) or of
\* activate_customer (to active) on that record.
C21_StatusInvariant ==
  /\ StatusEnumerated(customers)
  /\ [][/\ StatusEnumerated(customers')
        /\ \A i \in DOMAIN customers' \ DOMAIN customers :
             customers'[i].status = SqlText(S_active)
        /\ \A i \in DOMAIN customers :
             customers'[i].status # customers[i].status =>
               \E t \in Threads :
                 /\ StatusWrite(t)
                 /\ i \in WhereId(customers, customer_id[t])
                 /\ customers'[i].status = SqlText(StatusOf(Tool(message[t])))]_vars

\* C21 witness: the customer added first was disabled and then updated with
\* success, and is still disabled.
C21_Witness ==
  \E t \in Threads :
    /\ Done(t, S_update_customer, NEW_ID)
    /\ customers[NEW_ID].status = SqlText(S_disabled)

\* The names of the tools a tools/list result advertises.
AdvertisedNames(e) == {e.result.tools[i].name : i \in DOMAIN e.result.tools}

\* Thread t holds the response to a request of the given method.
Answered(t, method) ==
  pc[t] = "closed" /\ IsObject(message[t]) /\ MethodOf(message[t]) = PyStr(method)

\* C22: in every state, whatever requests were served before, a tools/list is
\* answered with exactly the six operations get_customer, list_customers,
\* add_customer, update_customer, disable_customer and activate_customer, and a
\* tools/call with a name is answered 'Tool not found' exactly when the name is
\* not one of the advertised ones.
C22_CatalogIsResolvable ==
  /\ {MCP_TOOLS[i].name : i \in DOMAIN MCP_TOOLS} = tool_functions
  /\ \A t \in Threads :
       /\ Answered(t, S_tools_list) =>
            \A e \in EnvelopesIn(response[t]) :
              /\ IsResult(e)
              /\ Len(e.result.tools) = 6
              /\ AdvertisedNames(e) =
                   {S_get_customer, S_list_customers, S_add_customer,
                    S_update_customer, S_disable_customer, S_activate_customer}
       /\ (Answered(t, S_tools_call) /\ HasParams(message[t]) /\ IsStr(NameOf(message[t]))) =>
            \A e \in EnvelopesIn(response[t]) :
              IsError(e, METHOD_NOT_FOUND) <=>
                NameOf(message[t]).v \notin {MCP_TOOLS[i].name : i \in DOMAIN MCP_TOOLS}

\* C22 witness: after a customer was added, a tools/list was answered with a
\* result that advertises six tools.
C22_Witness ==
  \E t \in Threads :
    /\ Answered(t, S_tools_list)
    /\ NEW_ID \in DOMAIN customers
    /\ \E e \in EnvelopesIn(response[t]) : IsResult(e) /\ Len(e.result.tools) = 6

\* The records thread t was returned with success.
ReturnedCustomer(t) ==
  {Payload(e).customer :
     e \in {x \in EnvelopesIn(response[t]) : IsResult(x) /\ Payload(x).success}}

\* C23: under every interleaving of concurrent callers a successful
\* disable_customer returns its record with status disabled, a successful
\* activate_customer with status active, and a successful update_customer
\* returns the values it wrote.
C23_AtomicOperations ==
  \A t \in Threads : \A id \in DOMAIN customers :
    /\ Done(t, S_disable_customer, id) =>
         \A c \in ReturnedCustomer(t) : c.status = PyStr(S_disabled)
    /\ Done(t, S_activate_customer, id) =>
         \A c \in ReturnedCustomer(t) : c.status = PyStr(S_active)
    /\ Done(t, S_update_customer, id) =>
         LET a == Args(message[t]) IN
         \A c \in ReturnedCustomer(t) :
           /\ (a.name # PyNone /\ IsStr(a.name)) => c.name = PyStr(Strip(a.name.v))
           /\ (a.email # PyNone /\ IsStr(a.email)) => c.email = a.email
           /\ (a.phone # PyNone /\ IsStr(a.phone)) => c.phone = a.phone

\* C24: a request whose method is initialize or tools/list, with any id and any
\* params and in any state of the table, is answered with one envelope that
\* carries a result and no error (the server and protocol metadata, or the
\* whole catalog), and the table is unchanged.
C24_HandshakeAlwaysSucceeds ==
  [][\A t \in Threads :
       (/\ Received(t)
        /\ IsObject(message'[t])
        /\ MethodOf(message'[t]) \in {PyStr(S_initialize), PyStr(S_tools_list)}) =>
         /\ pc'[t] = "closed"
         /\ StoreUnchanged
         /\ Len(response'[t].body) = 1
         /\ \A e \in EnvelopesIn(response'[t]) :
              /\ IsResult(e)
              /\ IF MethodOf(message'[t]) = PyStr(S_initialize)
                   THEN /\ e.result.protocolVersion = "2024-11-05"
                        /\ e.result.serverInfo.name = "customer-management-server"
                        /\ e.result.serverInfo.version = "1.0.0"
                   ELSE e.result.tools = MCP_TOOLS]_vars

\* C24 witness: after a customer was added, an initialize whose id is a string
\* and whose params are a number was answered with a result.
C24_Witness ==
  \E t \in Threads :
    /\ Answered(t, S_initialize)
    /\ Get(message[t], "id", PyNone) = PyStr(<<"a">>)
    /\ Get(message[t], "params", PyNone) = PyInt(5)
    /\ NEW_ID \in DOMAIN customers
    /\ \E e \in EnvelopesIn(response[t]) : IsResult(e)

\* The UPDATE of thread t is applied to the table as it stands at the commit:
\* the fields it supplies are written, the others keep the values they have
\* then, whoever wrote them, and no other record changes.
WriteApplied(t) ==
  LET a == Args(message[t])
      tool == Tool(message[t])
  IN \A i \in DOMAIN customers :
       IF i \in WhereId(customers, customer_id[t])
         THEN IF tool = S_update_customer
                THEN /\ customers'[i].status = customers[i].status
                     /\ customers'[i].name =
                          IF a.name # PyNone THEN SqlText(Strip(a.name.v))
                                             ELSE customers[i].name
                     /\ customers'[i].email =
                          IF a.email # PyNone THEN ToSql(a.email) ELSE customers[i].email
                     /\ customers'[i].phone =
                          IF a.phone # PyNone THEN ToSql(a.phone) ELSE customers[i].phone
                ELSE /\ customers'[i].status = SqlText(StatusOf(tool))
                     /\ customers'[i].name = customers[i].name
                     /\ customers'[i].email = customers[i].email
                     /\ customers'[i].phone = customers[i].phone
         ELSE customers'[i] = customers[i]

\* Once every caller has completed, a field of customer id that one successful
\* update_customer supplied and no other caller's did has the value supplied.
DisjointUpdatesKept(id) ==
  (\A t \in Threads : Done(t, S_update_customer, id)) =>
    \A t \in Threads : \A f \in {"email", "phone"} :
      (/\ Args(message[t])[f] # PyNone
       /\ \A u \in Threads \ {t} : Args(message[u])[f] = PyNone) =>
        customers[id][f] = ToSql(Args(message[t])[f])

\* C25: every committed UPDATE is applied to the record as the writes committed
\* before it left it, and nothing but a commit changes a record, so once all
\* callers have completed the record is the result of their writes in commit
\* order: concurrent update_customer calls on disjoint fields both take effect,
\* and the status is the one written by the disable_customer or
\* activate_customer that committed last.
C25_LastWriteWins ==
  [][/\ \A t \in Threads : Wrote(t) => WriteApplied(t)
     /\ (\A t \in Threads : ~Wrote(t)) =>
          \A i \in DOMAIN customers : customers'[i] = customers[i]
     /\ DisjointUpdatesKept(1)']_vars

\* C25 witness: two update_customer calls on the first sample, one with an
\* e-mail and one with a phone, ran at the same time and both returned success;
\* the record has both values.
C25_Witness ==
  /\ Done(1, S_update_customer, 1)
  /\ Done(2, S_update_customer, 1)
  /\ Args(message[1]).email = EMAIL /\ Args(message[2]).phone = PHONE
  /\ customers[1].email = ToSql(EMAIL)
  /\ customers[1].phone = ToSql(PHONE)

\* The dictionaries the store can return for a tool call on the table tbl,
\* whatever the storage condition: those of its checks and, for an operation
\* that writes, the read-back of the record it wrote.
Outcomes(body, tbl) ==
  LET a == Args(body)
      tool == Tool(body)
      checks ==
        UNION {CASE tool = S_get_customer -> {get_customer(tbl, a.customer_id, fault)}
                 [] tool = S_list_customers -> list_customers(tbl, a.status, fault)
                 [] tool = S_add_customer ->
                      {add_customer_check(a.name, a.email, a.phone, fault)}
                 [] tool = S_update_customer ->
                      {update_customer_check(tbl, a.customer_id, a.name, a.email,
                                             a.phone, fault)}
                 [] OTHER -> {status_check(tbl, a.customer_id, fault)} :
               fault \in BOOLEAN}
      written ==
        CASE tool \in {S_get_customer, S_list_customers} -> {}
          [] tool = S_add_customer -> {PyInt(MaxId(tbl))}
          [] OTHER -> IF Bindable(a.customer_id) /\ HasRow(tbl, a.customer_id)
                        THEN {a.customer_id} ELSE {}
  IN {r \in checks : Returned(r)}
       \cup {read_back(tbl, tool, c, fault) : c \in written, fault \in BOOLEAN}

\* The responses to a request that depend on the request and on the table only.
ResponsesTo(body, tbl) ==
  IF ~Invokes(body) THEN {mcp_endpoint(body)}
  ELSE {generate(body, Return(tool_result(body, r))) : r \in Outcomes(body, tbl)}

ReadsChangeNothing ==
  \A t \in Threads :
    (/\ Received(t)
     /\ Registered(message'[t])
     /\ NameOf(message'[t]).v \in {S_get_customer, S_list_customers}
     /\ Invokes(message'[t])) =>
      pc'[t] = "closed" /\ StoreUnchanged

\* The table changes only by the INSERT of an add_customer or the UPDATE of an
\* update_customer, disable_customer or activate_customer.
OnlyWritesChange ==
  customers' # customers =>
    \E t \in Threads :
      \/ Inserted(t)
      \/ Wrote(t) /\ Tool(message[t]) \in {S_update_customer, S_disable_customer,
                                           S_activate_customer}

\* An operation that has written returns success.
WritersSucceed ==
  \A t \in Threads : (pc[t] = "readback" /\ pc'[t] = "closed") => Succeeds(t)

\* C27: get_customer and list_customers, succeeding or failing, leave every
\* record unchanged, and the table changes only as the effect of an
\* add_customer, update_customer, disable_customer or activate_customer that
\* succeeds.
C27_ReadsHaveNoEffect ==
  [][ReadsChangeNothing /\ OnlyWritesChange /\ WritersSucceed]_vars

\* The parameters the advertised schema of a tool marks required, and all the
\* parameters it lists.
RequiredOf(tool) ==
  IF "required" \in DOMAIN SchemaOf(tool)
    THEN {SchemaOf(tool).required[i] : i \in DOMAIN SchemaOf(tool).required}
    ELSE {}

PropertiesOf(tool) == DOMAIN SchemaOf(tool).properties

\* The arguments of the call are a mapping with every required parameter of the
\* schema, some of the optional ones and nothing else.
FitsSchema(body) ==
  /\ Registered(body)
  /\ IsDict(ArgumentsOf(body))
  /\ RequiredOf(NameOf(body).v) \subseteq DOMAIN ArgumentsOf(body).v
  /\ DOMAIN ArgumentsOf(body).v \subseteq PropertiesOf(NameOf(body).v)

\* The tools/call has params without arguments.
OmitsArguments(body) ==
  HasParams(body) /\ "arguments" \notin DOMAIN Get(body, "params", EmptyDict).v

\* The same request with "arguments": {} in its params.
WithEmptyArguments(body) ==
  LET params == body.v.params.v IN
  PyDict([body.v EXCEPT !.params =
            PyDict([key \in DOMAIN params \cup {"arguments"} |->
                      IF key = "arguments" THEN EmptyDict ELSE params[key]])])

\* C28: a tools/call on a registered operation whose arguments are the required
\* parameters of the advertised schema, any of its optional ones and nothing
\* else is never answered with -32601 or -32602, and a tools/call without
\* params.arguments is answered as the same call with an empty argument mapping.
C28_SchemaMatchesHandler ==
  \A t \in Threads :
    pc[t] = "closed" =>
      /\ FitsSchema(message[t]) =>
           \A e \in EnvelopesIn(response[t]) :
             ~IsError(e, METHOD_NOT_FOUND) /\ ~IsError(e, INVALID_PARAMS)
      /\ OmitsArguments(message[t]) =>
           response[t] \in ResponsesTo(WithEmptyArguments(message[t]), customers)

\* C28 witness: after a customer was added, a list_customers without
\* params.arguments, which fits the schema, was answered with a result that
\* lists every customer.
C28_Witness ==
  \E t \in Threads :
    /\ pc[t] = "closed"
    /\ FitsSchema(message[t])
    /\ OmitsArguments(message[t])
    /\ NameOf(message[t]).v = S_list_customers
    /\ NEW_ID \in DOMAIN customers
    /\ \E e \in EnvelopesIn(response[t]) :
         IsResult(e) /\ Payload(e).success /\ Payload(e).count = NumSamples + 1

\* The columns of a customer record.
Columns == {"id", "name", "email", "phone", "status", "created_at", "updated_at"}

\* A dictionary with a boolean success, an error when it is false and, for
\* the operations on one customer, the record when it is true.
StoreEnvelope(payload, tool) ==
  /\ "success" \in DOMAIN payload
  /\ payload.success \in BOOLEAN
  /\ ~payload.success => "error" \in DOMAIN payload
  /\ (payload.success /\ tool # S_list_customers) =>
       "customer" \in DOMAIN payload /\ DOMAIN payload.customer = Columns

\* C29: every call that reaches a store operation, for every argument value
\* and every storage condition, is answered with the dictionary the operation
\* returned (nothing is raised to the gateway): it has a boolean success, an
\* error when success is false, and the record when get_customer,
\* add_customer, update_customer, disable_customer or activate_customer
\* succeeds.
C29_StoreEnvelope ==
  \A t \in Threads :
    (pc[t] = "closed" /\ Invokes(message[t])) =>
      /\ Len(response[t].body) = 1
      /\ \A e \in EnvelopesIn(response[t]) :
           IsResult(e) /\ StoreEnvelope(Payload(e), Tool(message[t]))

\* C29 witness: the storage raised after the UPDATE of a disable_customer was
\* committed, and the call was answered with the 'Database error' dictionary.
C29_Witness ==
  \E t \in Threads :
    /\ pc[t] = "closed"
    /\ Invokes(message[t])
    /\ Tool(message[t]) = S_disable_customer
    /\ NEW_ID \in DOMAIN customers
    /\ customers[NEW_ID].status = SqlText(S_disabled)
    /\ \E e \in EnvelopesIn(response[t]) :
         IsResult(e) /\ Payload(e) = DatabaseError(Exc("OperationalError"))

\* The records come in ascending order of name.
AscendingByName(records) ==
  \A i, j \in DOMAIN records :
    i < j => ~TextLess(records[j].name.v, records[i].name.v)

\* The rowids a customer_id denotes: a number itself, a text of digits the
\* number it spells (as the INTEGER column compares it).
IdsOf(param) ==
  IF param.k = "int" THEN {param.v}
  ELSE IF param.k = "str" /\ IsDigits(param.v) THEN {DigitsValue(param.v)}
  ELSE {}

\* C30: a successful list_customers returns its records in ascending order of
\* name with count equal to their number, and get_customer, when the storage
\* raises nothing, returns the record with the given id if the table has one
\* and a failure if it has none.
C30_ListOrderedGetExact ==
  \A t \in Threads :
    (pc[t] = "closed" /\ Invokes(message[t])) =>
      \A e \in EnvelopesIn(response[t]) :
        /\ (Tool(message[t]) = S_list_customers /\ Payload(e).success) =>
             /\ Payload(e).count = Len(Payload(e).customers)
             /\ AscendingByName(Payload(e).customers)
        /\ (/\ Tool(message[t]) = S_get_customer
            /\ Payload(e) # DatabaseError(Exc("OperationalError"))) =>
             LET ids == IdsOf(Args(message[t]).customer_id) \cap DOMAIN customers IN
             IF ids # {}
               THEN /\ Payload(e).success
                    /\ \A i \in ids : /\ Payload(e).customer = row_to_dict(customers[i])
                                      /\ Payload(e).customer.id = PyInt(i)
               ELSE ~Payload(e).success

\* C30 witness: after the customer added first was disabled, list_customers
\* with status disabled returned three records, ordered by name.
C30_Witness ==
  \E t \in Threads :
    /\ pc[t] = "closed"
    /\ Invokes(message[t])
    /\ Tool(message[t]) = S_list_customers
    /\ Args(message[t]).status = PyStr(S_disabled)
    /\ \E e \in EnvelopesIn(response[t]) :
         /\ Payload(e).success
         /\ Payload(e).count = 3
         /\ Payload(e).customers[3].id = PyInt(NEW_ID)

====
